---------------------------- MODULE Spec2Model ----------------------------
(***************************************************************************)
(* A model of src/src/main.cpp: the procedural city demo.                  *)
(*                                                                         *)
(* Floats are fixed-point integers, Unit per 1.0 (so 0.1f is 100 and       *)
(* -0.5f is -500).  The draws, scalings and halvings the program performs  *)
(* on the modelled values are exact at this resolution; single-precision   *)
(* rounding is not modelled.                                               *)
(*                                                                         *)
(* Two specifications:                                                     *)
(*   Spec      the whole of main(), from initializeWindow to return;       *)
(*   SpecCity  generateCity followed by createBuildingBuffers, called on   *)
(*             empty containers with any count 0..MaxBuildings as well as  *)
(*             main's own count.                                           *)
(***************************************************************************)
EXTENDS Integers, Sequences, FiniteSets, TLC

VARIABLES
    pc,             \* position in main()
    ret,            \* main's return value, meaningful once pc = "done"
    glfwInitialized,\* glfwInit succeeded and glfwTerminate not yet called
    windowAlive,    \* a GLFWwindow exists
    window,         \* main's local: TRUE for a non-null pointer
    shaderObjects,  \* live GL shader objects
    programAlive,   \* a live GL program object exists
    shaderProgram,  \* main's local: TRUE for a non-zero handle
    gpuObjects,     \* live VAO / VBO / EBO
    vboFloats,      \* number of floats handed to glBufferData(GL_ARRAY_BUFFER)
    eboCount,       \* number of indices handed to glBufferData(GL_ELEMENT_ARRAY_BUFFER)
    argOrder,       \* the build's evaluation order of constructor arguments
    numBuildings,   \* generateCity's parameter
    rng,            \* state of the random engine
    i,              \* generateCity's loop variable
    buildings,      \* std::vector<Building>
    k,              \* createBuildingBuffers' loop variable
    vertices,       \* std::vector<float>
    indices,        \* std::vector<unsigned int>
    cameraPos, cameraFront, cameraUp,
    deltaTime, lastFrame,
    keys,           \* keys GLFW reports as pressed
    shouldClose,    \* the window's close flag
    viewEye,        \* eye point of the last view matrix computed
    drawCount,      \* count argument of the last glDrawElements
    genCalls, meshCalls, uploads, frames, inputs, draws   \* how often each step ran

vars == << pc, ret, glfwInitialized, windowAlive, window, shaderObjects,
           programAlive, shaderProgram, gpuObjects, vboFloats, eboCount,
           argOrder, numBuildings, rng, i, buildings, k, vertices, indices,
           cameraPos, cameraFront, cameraUp, deltaTime, lastFrame, keys,
           shouldClose, viewEye, drawCount,
           genCalls, meshCalls, uploads, frames, inputs, draws >>

---------------------------------------------------------------------------
(* Bounds of the model *)

\* The engine has RngMod states; a draw is one of RngMod evenly spaced values.
RngMod == 5
\* SpecCity calls generateCity with every count 0..MaxBuildings.
MaxBuildings == 6
\* The user closes the window during render-loop iteration MaxFrames at the latest.
MaxFrames == 3

(* Program constants *)

\* generateCity(buildings, 100)
NumBuildings == 100

\* fixed-point resolution: Unit per 1.0f
Unit == 10 * 100

---------------------------------------------------------------------------
(* glm::vec3 *)

Vec3(x, y, z) == [x |-> x, y |-> y, z |-> z]
VAdd(a, b) == Vec3(a.x + b.x, a.y + b.y, a.z + b.z)
VSub(a, b) == Vec3(a.x - b.x, a.y - b.y, a.z - b.z)
\* float * float at fixed point
FMul(a, b) == (a * b) \div Unit
VScale(s, v) == Vec3(FMul(s, v.x), FMul(s, v.y), FMul(s, v.z))
Cross(a, b) == Vec3(FMul(a.y, b.z) - FMul(a.z, b.y),
                    FMul(a.z, b.x) - FMul(a.x, b.z),
                    FMul(a.x, b.y) - FMul(a.y, b.x))

RECURSIVE SqrtSearch(_, _, _)
\* the largest n in lo..hi with n * n <= s
SqrtSearch(s, lo, hi) ==
    IF lo >= hi THEN lo
    ELSE LET mid == (lo + hi + 1) \div 2
         IN  IF mid * mid <= s THEN SqrtSearch(s, mid, hi)
             ELSE SqrtSearch(s, lo, mid - 1)
Length(v) == SqrtSearch(v.x * v.x + v.y * v.y + v.z * v.z, 0, 4 * Unit)
Normalize(v) == LET len == Length(v)
                IN  Vec3((v.x * Unit) \div len, (v.y * Unit) \div len, (v.z * Unit) \div len)

---------------------------------------------------------------------------
(* The random source: std::mt19937 seeded from the steady clock, read       *)
(* through std::uniform_real_distribution<float>.  The engine is a library  *)
(* component; it is modelled as a deterministic engine with RngMod states   *)
(* whose seed is arbitrary, so that every draw position sees every value.   *)

RngMax == RngMod - 1
Seeds == 0 .. RngMax
\* the engine's state after n draws
Advance(s, n) == (s + n) % RngMod
\* uniform_real_distribution(a, b) applied to engine output r in 0..RngMax
Uniform(a, b, r) == a + ((b - a) * r) \div RngMax

posDistX(r) == Uniform(-100 * Unit, 100 * Unit, r)
posDistZ(r) == Uniform(-100 * Unit, 100 * Unit, r)
sizeDistWidth(r) == Uniform(5 * Unit, 15 * Unit, r)
sizeDistDepth(r) == Uniform(5 * Unit, 15 * Unit, r)
\* (mutant: the height range starts at 0)
heightDistMut(r) == Uniform(0, 60 * Unit, r)
heightDist(r) == Uniform(10 * Unit, 60 * Unit, r)
colorDist(r) == Uniform(2 * (Unit \div 10), 8 * (Unit \div 10), r)

\* The order in which a build evaluates the arguments of glm::vec3(...) is
\* unspecified: left to right or right to left.
ArgOrders == {"ltr", "rtl"}

\* glm::vec3(posDistX(rng), 0.0f, posDistZ(rng)) with the engine at s
RandomPosition(s, order) ==
    IF order = "ltr"
    THEN Vec3(posDistX(s), 0, posDistZ(Advance(s, 1)))
    ELSE Vec3(posDistX(Advance(s, 1)), 0, posDistZ(s))

\* the three colorDist(rng) draws of one glm::vec3(...), in argument order
ColorDraws(s, order) ==
    IF order = "ltr"
    THEN << colorDist(s), colorDist(Advance(s, 1)), colorDist(Advance(s, 2)) >>
    ELSE << colorDist(Advance(s, 2)), colorDist(Advance(s, 1)), colorDist(s) >>

\* (mutant: the bright branch is taken for idx % 5 = 1)
BuildingColorMut(idx, c) ==
    IF idx % 5 = 1
    THEN Vec3((c[1] * 5) \div 10 + 5 * (Unit \div 10),
              (c[2] * 5) \div 10 + 5 * (Unit \div 10),
              (c[3] * 5) \div 10 + 5 * (Unit \div 10))
    ELSE Vec3((c[1] * 3) \div 10,
              (c[2] * 3) \div 10,
              (c[3] * 5) \div 10 + 3 * (Unit \div 10))
\* building.color, a vec3 whose x, y, z are r, g, b
BuildingColor(idx, c) ==
    IF idx % 5 = 0
    THEN Vec3((c[1] * 5) \div 10 + 5 * (Unit \div 10),
              (c[2] * 5) \div 10 + 5 * (Unit \div 10),
              (c[3] * 5) \div 10 + 5 * (Unit \div 10))
    ELSE Vec3((c[1] * 3) \div 10,
              (c[2] * 3) \div 10,
              (c[3] * 5) \div 10 + 3 * (Unit \div 10))

\* engine draws per loop iteration of generateCity: 2 for the position,
\* 3 for width, depth and height, 3 for the colour
DrawsPerBuilding == 2 + 3 + 3

\* the Building pushed by iteration idx with the engine at s
RandomBuilding(idx, s, order) ==
    [ position |-> RandomPosition(s, order),
      width    |-> sizeDistWidth(Advance(s, 2)),
      depth    |-> sizeDistDepth(Advance(s, 3)),
      height   |-> heightDist(Advance(s, 4)),
      color    |-> BuildingColor(idx, ColorDraws(Advance(s, 5), order)) ]

\* the ground plane
Ground ==
    [ position |-> Vec3(0, -(Unit \div 2), 0),
      width    |-> 250 * Unit,
      depth    |-> 250 * Unit,
      height   |-> Unit,
      color    |-> Vec3(Unit \div 10, Unit \div 10, Unit \div 10) ]

---------------------------------------------------------------------------
(* createBuildingBuffers: one box per Building *)

\* (mutant: the blue channel is not pushed)
VertexMut(x, y, z, c, tint) == << x, y, z, c.x + tint, c.y + tint >>
\* one vertex: 3 position floats then 3 colour floats
Vertex(x, y, z, c, tint) == << x, y, z, c.x + tint, c.y + tint, c.z + tint >>

\* (mutant: the top colours are clamped to 1.0)
BoxVerticesMut(b) ==
    LET hw == b.width \div 2
        hh == b.height \div 2
        hd == b.depth \div 2
        p  == b.position
        cl(v) == IF v > Unit THEN Unit ELSE v
        top == Vec3(cl(b.color.x + Unit \div 10), cl(b.color.y + Unit \div 10),
                    cl(b.color.z + Unit \div 10))
    IN  Vertex(p.x - hw, p.y - hh, p.z + hd, b.color, 0)
     \o Vertex(p.x + hw, p.y - hh, p.z + hd, b.color, 0)
     \o Vertex(p.x + hw, p.y - hh, p.z - hd, b.color, 0)
     \o Vertex(p.x - hw, p.y - hh, p.z - hd, b.color, 0)
     \o Vertex(p.x - hw, p.y + hh, p.z + hd, top, 0)
     \o Vertex(p.x + hw, p.y + hh, p.z + hd, top, 0)
     \o Vertex(p.x + hw, p.y + hh, p.z - hd, top, 0)
     \o Vertex(p.x - hw, p.y + hh, p.z - hd, top, 0)
\* the 48 floats pushed for Building b
BoxVertices(b) ==
    LET hw == b.width \div 2
        hh == b.height \div 2
        hd == b.depth \div 2
        p  == b.position
        t  == Unit \div 10
    IN  Vertex(p.x - hw, p.y - hh, p.z + hd, b.color, 0)
     \o Vertex(p.x + hw, p.y - hh, p.z + hd, b.color, 0)
     \o Vertex(p.x + hw, p.y - hh, p.z - hd, b.color, 0)
     \o Vertex(p.x - hw, p.y - hh, p.z - hd, b.color, 0)
     \o Vertex(p.x - hw, p.y + hh, p.z + hd, b.color, t)
     \o Vertex(p.x + hw, p.y + hh, p.z + hd, b.color, t)
     \o Vertex(p.x + hw, p.y + hh, p.z - hd, b.color, t)
     \o Vertex(p.x - hw, p.y + hh, p.z - hd, b.color, t)

\* (mutant: the second top triangle is wound the other way)
BoxIndicesMut(baseIndex) ==
    << baseIndex + 0, baseIndex + 1, baseIndex + 2,
       baseIndex + 2, baseIndex + 3, baseIndex + 0,
       baseIndex + 4, baseIndex + 7, baseIndex + 6,
       baseIndex + 6, baseIndex + 4, baseIndex + 5,
       baseIndex + 0, baseIndex + 4, baseIndex + 5,
       baseIndex + 5, baseIndex + 1, baseIndex + 0,
       baseIndex + 1, baseIndex + 5, baseIndex + 6,
       baseIndex + 6, baseIndex + 2, baseIndex + 1,
       baseIndex + 2, baseIndex + 6, baseIndex + 7,
       baseIndex + 7, baseIndex + 3, baseIndex + 2,
       baseIndex + 3, baseIndex + 7, baseIndex + 4,
       baseIndex + 4, baseIndex + 0, baseIndex + 3 >>
\* the 36 indices pushed for a box whose first vertex is baseIndex
BoxIndices(baseIndex) ==
    << baseIndex + 0, baseIndex + 1, baseIndex + 2,
       baseIndex + 2, baseIndex + 3, baseIndex + 0,
       baseIndex + 4, baseIndex + 7, baseIndex + 6,
       baseIndex + 6, baseIndex + 5, baseIndex + 4,
       baseIndex + 0, baseIndex + 4, baseIndex + 5,
       baseIndex + 5, baseIndex + 1, baseIndex + 0,
       baseIndex + 1, baseIndex + 5, baseIndex + 6,
       baseIndex + 6, baseIndex + 2, baseIndex + 1,
       baseIndex + 2, baseIndex + 6, baseIndex + 7,
       baseIndex + 7, baseIndex + 3, baseIndex + 2,
       baseIndex + 3, baseIndex + 7, baseIndex + 4,
       baseIndex + 4, baseIndex + 0, baseIndex + 3 >>

---------------------------------------------------------------------------
(* Initial states *)

ZeroVec == Vec3(0, 0, 0)
Keys == {"ESCAPE", "W", "S", "A", "D", "SPACE", "LEFT_CONTROL"}

\* what is the same at the start of main() and of the generator harness
InitCommon ==
    /\ ret = 0
    /\ shaderObjects = {}
    /\ gpuObjects = {}
    /\ vboFloats = 0 /\ eboCount = 0
    /\ argOrder \in ArgOrders
    /\ rng = 0 /\ i = 0 /\ k = 0
    /\ buildings = << >> /\ vertices = << >> /\ indices = << >>
    /\ cameraPos = ZeroVec /\ cameraFront = ZeroVec /\ cameraUp = ZeroVec
    /\ deltaTime = 0 /\ lastFrame = 0
    /\ keys = {}
    /\ shouldClose = FALSE
    /\ viewEye = ZeroVec /\ drawCount = 0
    /\ genCalls = 0 /\ meshCalls = 0 /\ uploads = 0
    /\ frames = 0 /\ inputs = 0 /\ draws = 0

\* main() is entered
Init ==
    /\ InitCommon
    /\ pc = "initWindow"
    /\ glfwInitialized = FALSE /\ windowAlive = FALSE /\ window = FALSE
    /\ programAlive = FALSE /\ shaderProgram = FALSE
    /\ numBuildings = NumBuildings

\* generateCity is about to be called on an empty list with any count
InitCity ==
    /\ InitCommon
    /\ pc = "generate"
    /\ glfwInitialized = TRUE /\ windowAlive = TRUE /\ window = TRUE
    /\ programAlive = TRUE /\ shaderProgram = TRUE
    /\ numBuildings \in (0 .. MaxBuildings) \cup {NumBuildings}

---------------------------------------------------------------------------
(* main(): start-up *)

mainVars == << pc, ret, glfwInitialized, windowAlive, window, shaderObjects,
               programAlive, shaderProgram, gpuObjects, vboFloats, eboCount >>
cityVars == << argOrder, numBuildings, rng, i, buildings, genCalls >>
meshVars == << k, vertices, indices, meshCalls >>
cameraVars == << cameraPos, cameraFront, cameraUp >>
loopVars == << deltaTime, lastFrame, keys, shouldClose, viewEye, drawCount,
               uploads, frames, inputs, draws >>

\* GLFWwindow* window = initializeWindow(); if (!window) return -1;
InitializeWindow ==
    /\ pc = "initWindow"
    /\ \E outcome \in {"glfwInitFails", "createWindowFails", "gladFails", "ok"} :
          /\ glfwInitialized' = (outcome \in {"gladFails", "ok"})
          /\ windowAlive' = (outcome \in {"gladFails", "ok"})
          /\ window' = (outcome = "ok")
    /\ IF window' THEN pc' = "compile" /\ ret' = ret
                  ELSE pc' = "done" /\ ret' = -1
    /\ UNCHANGED << shaderObjects, programAlive, shaderProgram, gpuObjects,
                    vboFloats, eboCount >>
    /\ UNCHANGED << cityVars, meshVars, cameraVars, loopVars >>

\* unsigned int shaderProgram = compileShaders(); if (!shaderProgram) return -1;
CompileShaders ==
    /\ pc = "compile"
    /\ \E outcome \in {"vertexFails", "fragmentFails", "linkFails", "ok"} :
          /\ shaderObjects' = CASE outcome = "vertexFails" -> {"vertex"}
                                [] outcome = "fragmentFails" -> {"vertex", "fragment"}
                                [] outcome = "linkFails" -> {"vertex", "fragment"}
                                [] outcome = "ok" -> {}
          /\ programAlive' = (outcome \in {"linkFails", "ok"})
          /\ shaderProgram' = (outcome = "ok")
    /\ IF shaderProgram' THEN pc' = "generate" /\ ret' = ret
                         ELSE pc' = "done" /\ ret' = -1
    /\ UNCHANGED << glfwInitialized, windowAlive, window, gpuObjects,
                    vboFloats, eboCount >>
    /\ UNCHANGED << cityVars, meshVars, cameraVars, loopVars >>

---------------------------------------------------------------------------
(* generateCity(buildings, numBuildings) *)

\* the call: the engine is seeded from the clock and the loop starts at i = 0
GenerateCityEnter ==
    /\ pc = "generate"
    /\ pc' = "genLoop"
    /\ rng' \in Seeds
    /\ i' = 0
    /\ genCalls' = genCalls + 1
    /\ UNCHANGED << ret, glfwInitialized, windowAlive, window, shaderObjects,
                    programAlive, shaderProgram, gpuObjects, vboFloats, eboCount >>
    /\ UNCHANGED << argOrder, numBuildings, buildings >>
    /\ UNCHANGED << meshVars, cameraVars, loopVars >>

\* (mutant: the loop runs while i <= numBuildings)
GenerateCityLoopMut ==
    /\ pc = "genLoop"
    /\ i <= numBuildings
    /\ buildings' = Append(buildings, RandomBuilding(i, rng, argOrder))
    /\ rng' = Advance(rng, DrawsPerBuilding)
    /\ i' = i + 1
    /\ UNCHANGED << mainVars, argOrder, numBuildings, genCalls >>
    /\ UNCHANGED << meshVars, cameraVars, loopVars >>
\* one iteration of for (int i = 0; i < numBuildings; i++)
GenerateCityLoop ==
    /\ pc = "genLoop"
    /\ i < numBuildings
    /\ buildings' = Append(buildings, RandomBuilding(i, rng, argOrder))
    /\ rng' = Advance(rng, DrawsPerBuilding)
    /\ i' = i + 1
    /\ UNCHANGED << mainVars, argOrder, numBuildings, genCalls >>
    /\ UNCHANGED << meshVars, cameraVars, loopVars >>

\* the loop is left, the ground plane is pushed and generateCity returns
GenerateCityGround ==
    /\ pc = "genLoop"
    /\ ~(i < numBuildings)
    /\ buildings' = Append(buildings, Ground)
    /\ pc' = "mesh"
    /\ UNCHANGED << ret, glfwInitialized, windowAlive, window, shaderObjects,
                    programAlive, shaderProgram, gpuObjects, vboFloats, eboCount >>
    /\ UNCHANGED << argOrder, numBuildings, rng, i, genCalls >>
    /\ UNCHANGED << meshVars, cameraVars, loopVars >>

---------------------------------------------------------------------------
(* createBuildingBuffers(buildings, vertices, indices) *)

\* the call: the loop starts at index 0 (k is the source's size_t i)
CreateBuildingBuffersEnter ==
    /\ pc = "mesh"
    /\ pc' = "meshLoop"
    /\ k' = 0
    /\ meshCalls' = meshCalls + 1
    /\ UNCHANGED << ret, glfwInitialized, windowAlive, window, shaderObjects,
                    programAlive, shaderProgram, gpuObjects, vboFloats, eboCount >>
    /\ UNCHANGED << vertices, indices >>
    /\ UNCHANGED << cityVars, cameraVars, loopVars >>

\* (mutant: baseIndex is read after the box's vertices were pushed)
CreateBuildingBuffersLoopMut ==
    /\ pc = "meshLoop"
    /\ k < Len(buildings)
    /\ vertices' = vertices \o BoxVertices(buildings[k + 1])
    /\ indices' = indices \o BoxIndices(Len(vertices') \div 6)
    /\ k' = k + 1
    /\ UNCHANGED << mainVars, meshCalls >>
    /\ UNCHANGED << cityVars, cameraVars, loopVars >>
\* one iteration of for (size_t i = 0; i < buildings.size(); i++);
\* buildings[k + 1] is the source's buildings[i], sequences counting from 1.
\* baseIndex is an unsigned int; vertices.size() / 6 stays far below 2^32.
CreateBuildingBuffersLoop ==
    /\ pc = "meshLoop"
    /\ k < Len(buildings)
    /\ LET b == buildings[k + 1]
           baseIndex == Len(vertices) \div 6
       IN  /\ vertices' = vertices \o BoxVertices(b)
           /\ indices' = indices \o BoxIndices(baseIndex)
    /\ k' = k + 1
    /\ UNCHANGED << mainVars, meshCalls >>
    /\ UNCHANGED << cityVars, cameraVars, loopVars >>

\* the loop is left and createBuildingBuffers returns
CreateBuildingBuffersReturn ==
    /\ pc = "meshLoop"
    /\ ~(k < Len(buildings))
    /\ pc' = "upload"
    /\ UNCHANGED << ret, glfwInitialized, windowAlive, window, shaderObjects,
                    programAlive, shaderProgram, gpuObjects, vboFloats, eboCount >>
    /\ UNCHANGED << meshVars, cityVars, cameraVars, loopVars >>

---------------------------------------------------------------------------
(* main(): upload, render loop, clean-up *)

\* VAO/VBO/EBO are created, both vectors are handed to glBufferData, the
\* camera and the timing locals are initialised
Upload ==
    /\ pc = "upload"
    /\ pc' = "loopTest"
    /\ gpuObjects' = {"VAO", "VBO", "EBO"}
    /\ vboFloats' = Len(vertices)
    /\ eboCount' = Len(indices)
    /\ uploads' = uploads + 1
    /\ cameraPos' = Vec3(0, 50 * Unit, 150 * Unit)
    /\ cameraFront' = Vec3(0, 0, -Unit)
    /\ cameraUp' = Vec3(0, Unit, 0)
    /\ deltaTime' = 0
    /\ lastFrame' = 0
    /\ UNCHANGED << ret, glfwInitialized, windowAlive, window, shaderObjects,
                    programAlive, shaderProgram >>
    /\ UNCHANGED << keys, shouldClose, viewEye, drawCount, frames, inputs, draws >>
    /\ UNCHANGED << cityVars, meshVars >>

\* Clock ticks between two reads of glfwGetTime().  The frame time differs
\* from run to run and is steady within a run.
Ticks == {1, 2}

\* while (!glfwWindowShouldClose(window)) and, inside, the per-frame time logic
LoopTest ==
    /\ pc = "loopTest"
    /\ IF shouldClose
       THEN /\ pc' = "cleanup"
            /\ UNCHANGED << deltaTime, lastFrame, frames >>
       ELSE /\ pc' = "input"
            /\ frames' = frames + 1
            /\ \E dt \in (IF frames = 0 THEN Ticks ELSE {deltaTime}) :
                  LET currentFrame == lastFrame + dt
                  IN  /\ deltaTime' = currentFrame - lastFrame
                      /\ lastFrame' = currentFrame
    /\ UNCHANGED << ret, glfwInitialized, windowAlive, window, shaderObjects,
                    programAlive, shaderProgram, gpuObjects, vboFloats, eboCount >>
    /\ UNCHANGED << keys, shouldClose, viewEye, drawCount, uploads, inputs, draws >>
    /\ UNCHANGED << cityVars, meshVars, cameraVars >>

Pressed(key) == key \in keys

\* (mutant: the step is scaled by the frame time)
ProcessInputMut ==
    /\ pc = "input"
    /\ pc' = "render"
    /\ shouldClose' = (shouldClose \/ Pressed("ESCAPE"))
    /\ LET cameraSpeed == Unit * deltaTime
           up == Vec3(0, Unit, 0)
           p1 == IF Pressed("W") THEN VAdd(cameraPos, VScale(cameraSpeed, cameraFront))
                                 ELSE cameraPos
           p2 == IF Pressed("S") THEN VSub(p1, VScale(cameraSpeed, cameraFront)) ELSE p1
           p3 == IF Pressed("A")
                 THEN VSub(p2, VScale(cameraSpeed, Normalize(Cross(cameraFront, up))))
                 ELSE p2
           p4 == IF Pressed("D")
                 THEN VAdd(p3, VScale(cameraSpeed, Normalize(Cross(cameraFront, up))))
                 ELSE p3
           p5 == IF Pressed("SPACE") THEN VAdd(p4, Vec3(0, cameraSpeed, 0)) ELSE p4
           p6 == IF Pressed("LEFT_CONTROL") THEN VSub(p5, Vec3(0, cameraSpeed, 0)) ELSE p5
       IN  cameraPos' = p6
    /\ inputs' = inputs + 1
    /\ UNCHANGED << ret, glfwInitialized, windowAlive, window, shaderObjects,
                    programAlive, shaderProgram, gpuObjects, vboFloats, eboCount >>
    /\ UNCHANGED << cameraFront, cameraUp >>
    /\ UNCHANGED << deltaTime, lastFrame, keys, viewEye, drawCount, uploads, frames, draws >>
    /\ UNCHANGED << cityVars, meshVars >>
\* processInput(window, cameraPos, cameraFront)
ProcessInput ==
    /\ pc = "input"
    /\ pc' = "render"
    /\ shouldClose' = (shouldClose \/ Pressed("ESCAPE"))
    /\ LET cameraSpeed == Unit
           up == Vec3(0, Unit, 0)
           p1 == IF Pressed("W") THEN VAdd(cameraPos, VScale(cameraSpeed, cameraFront))
                                 ELSE cameraPos
           p2 == IF Pressed("S") THEN VSub(p1, VScale(cameraSpeed, cameraFront)) ELSE p1
           p3 == IF Pressed("A")
                 THEN VSub(p2, VScale(cameraSpeed, Normalize(Cross(cameraFront, up))))
                 ELSE p2
           p4 == IF Pressed("D")
                 THEN VAdd(p3, VScale(cameraSpeed, Normalize(Cross(cameraFront, up))))
                 ELSE p3
           p5 == IF Pressed("SPACE") THEN VAdd(p4, Vec3(0, cameraSpeed, 0)) ELSE p4
           p6 == IF Pressed("LEFT_CONTROL") THEN VSub(p5, Vec3(0, cameraSpeed, 0)) ELSE p5
       IN  cameraPos' = p6
    /\ inputs' = inputs + 1
    /\ UNCHANGED << ret, glfwInitialized, windowAlive, window, shaderObjects,
                    programAlive, shaderProgram, gpuObjects, vboFloats, eboCount >>
    /\ UNCHANGED << cameraFront, cameraUp >>
    /\ UNCHANGED << deltaTime, lastFrame, keys, viewEye, drawCount, uploads, frames, draws >>
    /\ UNCHANGED << cityVars, meshVars >>

\* (mutant: the frame pushes one more index before it draws)
RenderMut ==
    /\ pc = "render"
    /\ pc' = "swap"
    /\ indices' = Append(indices, 0)
    /\ viewEye' = cameraPos
    /\ drawCount' = Len(indices')
    /\ draws' = draws + 1
    /\ UNCHANGED << ret, glfwInitialized, windowAlive, window, shaderObjects,
                    programAlive, shaderProgram, gpuObjects, vboFloats, eboCount >>
    /\ UNCHANGED << deltaTime, lastFrame, keys, shouldClose, uploads, frames, inputs >>
    /\ UNCHANGED << cityVars, k, vertices, meshCalls, cameraVars >>
\* clear, glm::lookAt(cameraPos, cameraPos + cameraFront, cameraUp), the
\* uniforms, glDrawElements(GL_TRIANGLES, indices.size(), ...)
Render ==
    /\ pc = "render"
    /\ pc' = "swap"
    /\ viewEye' = cameraPos
    /\ drawCount' = Len(indices)
    /\ draws' = draws + 1
    /\ UNCHANGED << ret, glfwInitialized, windowAlive, window, shaderObjects,
                    programAlive, shaderProgram, gpuObjects, vboFloats, eboCount >>
    /\ UNCHANGED << deltaTime, lastFrame, keys, shouldClose, uploads, frames, inputs >>
    /\ UNCHANGED << cityVars, meshVars, cameraVars >>

\* glfwSwapBuffers(window); glfwPollEvents(): the poll delivers at most one
\* event, a key press, a key release or the user's request to close the
\* window.  In iteration MaxFrames the event is the close request.
SwapAndPoll ==
    /\ pc = "swap"
    /\ pc' = "loopTest"
    /\ IF frames >= MaxFrames
       THEN /\ keys' = keys
            /\ shouldClose' = TRUE
       ELSE \E event \in Keys \cup {"none", "close"} :
               /\ keys' = IF event \in Keys
                          THEN IF event \in keys THEN keys \ {event}
                                                 ELSE keys \cup {event}
                          ELSE keys
               /\ shouldClose' = (shouldClose \/ event = "close")
    /\ UNCHANGED << ret, glfwInitialized, windowAlive, window, shaderObjects,
                    programAlive, shaderProgram, gpuObjects, vboFloats, eboCount >>
    /\ UNCHANGED << deltaTime, lastFrame, viewEye, drawCount, uploads, frames,
                    inputs, draws >>
    /\ UNCHANGED << cityVars, meshVars, cameraVars >>

\* glDeleteVertexArrays, glDeleteBuffers x2, glDeleteProgram, glfwTerminate,
\* return 0
CleanUp ==
    /\ pc = "cleanup"
    /\ pc' = "done"
    /\ ret' = 0
    /\ gpuObjects' = {}
    /\ programAlive' = FALSE
    /\ glfwInitialized' = FALSE
    /\ windowAlive' = FALSE
    /\ UNCHANGED << window, shaderObjects, shaderProgram, vboFloats, eboCount >>
    /\ UNCHANGED << cityVars, meshVars, cameraVars, loopVars >>

---------------------------------------------------------------------------
(* Specifications *)

Next ==
    \/ InitializeWindow
    \/ CompileShaders
    \/ GenerateCityEnter
    \/ GenerateCityLoop
    \/ GenerateCityGround
    \/ CreateBuildingBuffersEnter
    \/ CreateBuildingBuffersLoop
    \/ CreateBuildingBuffersReturn
    \/ Upload
    \/ LoopTest
    \/ ProcessInput
    \/ Render
    \/ SwapAndPoll
    \/ CleanUp

Spec == Init /\ [][Next]_vars

NextCity ==
    \/ GenerateCityEnter
    \/ GenerateCityLoop
    \/ GenerateCityGround
    \/ CreateBuildingBuffersEnter
    \/ CreateBuildingBuffersLoop
    \/ CreateBuildingBuffersReturn

SpecCity == InitCity /\ [][NextCity]_vars

---------------------------------------------------------------------------
(* Properties of generateCity, checked under SpecCity *)

\* generateCity has returned
Generated == pc \in {"mesh", "meshLoop", "upload"}

\* the ground plane as the specification states it
GroundPlaneStated ==
    [ position |-> [x |-> 0, y |-> -(Unit \div 2), z |-> 0],
      width    |-> 250 * Unit,
      depth    |-> 250 * Unit,
      height   |-> 1 * Unit,
      color    |-> [x |-> Unit \div 10, y |-> Unit \div 10, z |-> Unit \div 10] ]

\* C1: for every count N >= 0, generateCity called on an empty list leaves
\* exactly N + 1 descriptors, the last of which is the fixed ground plane,
\* whatever the random source produced.
C1_CountAndGround ==
    Generated =>
        /\ Len(buildings) = numBuildings + 1
        /\ buildings[Len(buildings)] = GroundPlaneStated

\* C1's case: generateCity(0) has returned, with the ground plane alone
C1_Witness ==
    /\ pc = "mesh"
    /\ numBuildings = 0
    /\ buildings = << GroundPlaneStated >>

InRange(v, lo, hi) == lo <= v /\ v <= hi

\* C2: every descriptor other than the ground plane has width and depth in
\* [5,15], height in [10,60], position.x and position.z in [-100,100] and
\* position.y = 0; so every descriptor, the ground plane included, has
\* positive width, depth and height.
C2_Ranges ==
    \A j \in 1 .. Len(buildings) :
        LET b == buildings[j]
        IN  /\ j <= numBuildings =>
                /\ InRange(b.width, 5 * Unit, 15 * Unit)
                /\ InRange(b.depth, 5 * Unit, 15 * Unit)
                /\ InRange(b.height, 10 * Unit, 60 * Unit)
                /\ InRange(b.position.x, -100 * Unit, 100 * Unit)
                /\ InRange(b.position.z, -100 * Unit, 100 * Unit)
                /\ b.position.y = 0
            /\ b.width > 0 /\ b.depth > 0 /\ b.height > 0

\* C2's case: a finished city whose buildings reach both ends of the height
\* range and of the x range
C2_Witness ==
    /\ Generated
    /\ numBuildings = MaxBuildings
    /\ \E j \in 1 .. numBuildings : buildings[j].height = 10 * Unit
    /\ \E j \in 1 .. numBuildings : buildings[j].height = 60 * Unit
    /\ \E j \in 1 .. numBuildings : buildings[j].position.x = -100 * Unit
    /\ \E j \in 1 .. numBuildings : buildings[j].position.x = 100 * Unit

Bright(c) == c.x >= 5 * (Unit \div 10) /\ c.y >= 5 * (Unit \div 10) /\ c.z >= 5 * (Unit \div 10)
Muted(c) == c.x <= 24 * (Unit \div 100) /\ c.y <= 24 * (Unit \div 100) /\ c.z <= 8 * (Unit \div 10)

\* C3 as stated: in the returned sequence every descriptor whose zero-based
\* index is a multiple of 5 has all three channels >= 0.5 and every other
\* descriptor has red <= 0.24, green <= 0.24 and blue <= 0.8.
C3_Original ==
    Generated =>
        \A j \in 1 .. Len(buildings) :
            IF (j - 1) % 5 = 0 THEN Bright(buildings[j].color)
                               ELSE Muted(buildings[j].color)

\* C3 amended: every descriptor other than the ground plane whose zero-based
\* index is a multiple of 5 has all three channels >= 0.5; every other
\* descriptor, and the ground plane at whatever index it lands, has red <= 0.24,
\* green <= 0.24 and blue <= 0.8.
C3_Amended ==
    \A j \in 1 .. Len(buildings) :
        IF (j - 1) % 5 = 0 /\ j <= numBuildings
        THEN Bright(buildings[j].color)
        ELSE Muted(buildings[j].color)

\* C3's case: five buildings, so that the ground plane lands on index 5,
\* next to a bright building at index 0 and a muted one at index 1
C3_Witness ==
    /\ Generated
    /\ numBuildings = 5
    /\ Bright(buildings[1].color)
    /\ Muted(buildings[2].color) /\ ~Bright(buildings[2].color)
    /\ buildings[6] = GroundPlaneStated
    /\ ~Bright(buildings[6].color)

---------------------------------------------------------------------------
(* Properties of createBuildingBuffers, checked under SpecCity *)

\* number of descriptors createBuildingBuffers has processed so far
Processed == IF pc \in {"meshLoop", "upload"} THEN k ELSE 0

\* The descriptors (0-indexed) a state is examined for: inside the loop the
\* one just finished, after the loop all of them.
Finished ==
    IF pc = "upload" THEN 0 .. Processed - 1
    ELSE IF Processed > 0 THEN {Processed - 1} ELSE {}

\* C4: started on empty buffers, createBuildingBuffers appends exactly 48
\* floats (8 vertices) and 36 indices per descriptor, so the vertex buffer's
\* length is a multiple of 6 before and after every descriptor; M descriptors
\* end as 8*M vertices and 36*M indices, 808 and 3636 for generateCity(100).
C4_BufferSizes ==
    /\ Len(vertices) = 48 * Processed
    /\ Len(indices) = 36 * Processed
    /\ Len(vertices) % 6 = 0
    /\ pc = "upload" =>
          /\ Processed = Len(buildings)
          /\ Len(vertices) \div 6 = 8 * Len(buildings)
          /\ Len(indices) = 36 * Len(buildings)
          /\ numBuildings = 100 =>
                /\ Len(buildings) = 101
                /\ Len(vertices) \div 6 = 808
                /\ Len(indices) = 3636

\* C4's case: the 101 descriptors of generateCity(100) have been processed
C4_Witness ==
    /\ pc = "upload"
    /\ numBuildings = 100
    /\ k = 101
    /\ Len(vertices) = 4848
    /\ Len(indices) = 3636

\* the local index sequence as the specification lists it
LocalIndicesStated ==
    << 0, 1, 2,  2, 3, 0,  4, 7, 6,  6, 5, 4,  0, 4, 5,  5, 1, 0,
       1, 5, 6,  6, 2, 1,  2, 6, 7,  7, 3, 2,  3, 7, 4,  4, 0, 3 >>

\* C5: the base index of the d-th descriptor (0-indexed) is read before its
\* vertices are appended and equals 8d; its 36 indices are 8d plus the local
\* sequence, so each lies in [8d, 8d+7] and refers to a vertex that is in
\* the vertex buffer once the descriptor is finished.
C5_Indices ==
    \A d \in Finished :
        \A m \in 1 .. 36 :
            LET idx == indices[36 * d + m]
            IN  /\ idx = 8 * d + LocalIndicesStated[m]
                /\ InRange(idx, 8 * d, 8 * d + 7)
                /\ idx < Len(vertices) \div 6

\* C5's case: a second descriptor has been processed, its indices starting at 8
C5_Witness ==
    /\ pc = "meshLoop"
    /\ k = 2
    /\ Len(indices) = 72
    /\ indices[37] = 8
    /\ indices[72] = 11

\* the signs of the 8 corners along x, y and z, as the specification lists them
CornerX == << -1, 1, 1, -1, -1, 1, 1, -1 >>
CornerY == << -1, -1, -1, -1, 1, 1, 1, 1 >>
CornerZ == << 1, 1, -1, -1, 1, 1, -1, -1 >>

\* the 6 floats of vertex j (0..7) of a box, as the specification states them
VertexStated(b, j) ==
    LET hw == b.width \div 2
        hh == b.height \div 2
        hd == b.depth \div 2
        tint == IF j >= 4 THEN Unit \div 10 ELSE 0
    IN  << b.position.x + CornerX[j + 1] * hw,
           b.position.y + CornerY[j + 1] * hh,
           b.position.z + CornerZ[j + 1] * hd,
           b.color.x + tint, b.color.y + tint, b.color.z + tint >>

\* the specification's example box, with a colour whose tint passes 1.0
ExampleBox ==
    [ position |-> [x |-> 0, y |-> 0, z |-> 0],
      width |-> 10 * Unit, depth |-> 10 * Unit, height |-> 10 * Unit,
      color |-> [x |-> 95 * (Unit \div 100), y |-> 5 * (Unit \div 10), z |-> 2 * (Unit \div 10)] ]

\* C6: each descriptor's 8 vertices are emitted in the fixed corner order,
\* vertices 0-3 with the raw colour and 4-7 with colour + 0.1 per channel,
\* unclamped; the box at the origin with extents 10 has vertex 0 =
\* (-5,-5,5,r,g,b) and vertex 6 = (5,5,-5,r+0.1,g+0.1,b+0.1).
C6_Vertices ==
    /\ \A d \in Finished :
          \A j \in 0 .. 7 :
              SubSeq(vertices, 48 * d + 6 * j + 1, 48 * d + 6 * j + 6)
                  = VertexStated(buildings[d + 1], j)
    /\ Processed > 0 =>
          /\ SubSeq(BoxVertices(ExampleBox), 1, 6)
                = << -5 * Unit, -5 * Unit, 5 * Unit,
                     95 * (Unit \div 100), 5 * (Unit \div 10), 2 * (Unit \div 10) >>
          /\ SubSeq(BoxVertices(ExampleBox), 37, 42)
                = << 5 * Unit, 5 * Unit, -5 * Unit,
                     105 * (Unit \div 100), 6 * (Unit \div 10), 3 * (Unit \div 10) >>

\* C6's case: a random building and the ground plane have both been emitted,
\* the building's top tinted by 0.1
C6_Witness ==
    /\ pc = "upload"
    /\ numBuildings = 1
    /\ Len(vertices) = 96
    /\ vertices[28] = vertices[4] + Unit \div 10
    /\ vertices[48 + 2] = -1 * Unit
    /\ vertices[48 + 24 + 2] = 0

---------------------------------------------------------------------------
(* Winding of the emitted triangles, checked under SpecCity *)

\* The corner of box d that vertex number n of the vertex buffer is, in units
\* of the box's half-extents from its centre: each coordinate is -1 or 1.
\* With positive extents, a triple product of such vectors has the sign of
\* the triple product of the vectors themselves.
Corner(d, n) ==
    LET b == buildings[d + 1]
    IN  [ x |-> (vertices[6 * n + 1] - b.position.x) \div (b.width \div 2),
          y |-> (vertices[6 * n + 2] - b.position.y) \div (b.height \div 2),
          z |-> (vertices[6 * n + 3] - b.position.z) \div (b.depth \div 2) ]

\* the three corners of triangle t (1..12) of box d, read through the index buffer
Triangle(d, t) ==
    [ m \in 1 .. 3 |-> Corner(d, indices[36 * d + 3 * (t - 1) + m]) ]

\* ((b - a) x (c - a)) . (a - centre) for triangle (a, b, c)
NormalDotOut(T) ==
    LET u == [x |-> T[2].x - T[1].x, y |-> T[2].y - T[1].y, z |-> T[2].z - T[1].z]
        v == [x |-> T[3].x - T[1].x, y |-> T[3].y - T[1].y, z |-> T[3].z - T[1].z]
        n == [x |-> u.y * v.z - u.z * v.y,
              y |-> u.z * v.x - u.x * v.z,
              z |-> u.x * v.y - u.y * v.x]
    IN  n.x * T[1].x + n.y * T[1].y + n.z * T[1].z

CornerSet(T) == {T[1], T[2], T[3]}
Coord(c, axis) == CASE axis = "x" -> c.x [] axis = "y" -> c.y [] axis = "z" -> c.z
\* the faces of the box, as << axis, side >>, that hold all of a set of corners
FacesHolding(S) ==
    { f \in {"x", "y", "z"} \X {-1, 1} : \A c \in S : Coord(c, f[1]) = f[2] }
\* two corners of one face that are opposite on it
Diagonal(S) ==
    \A p \in S : \A q \in S :
        p # q => Cardinality({axis \in {"x", "y", "z"} : Coord(p, axis) # Coord(q, axis)}) = 2

\* triangles 2f-1 and 2f of box d are two halves of one face, split along a diagonal
FacePair(d, f) ==
    LET S1 == CornerSet(Triangle(d, 2 * f - 1))
        S2 == CornerSet(Triangle(d, 2 * f))
    IN  /\ Cardinality(S1) = 3 /\ Cardinality(S2) = 3
        /\ Cardinality(S1 \cup S2) = 4
        /\ Cardinality(FacesHolding(S1 \cup S2)) = 1
        /\ Cardinality(S1 \cap S2) = 2
        /\ Diagonal(S1 \cap S2)

\* the 12 triangles of box d cover its six faces, two triangles each
SixFaces(d) ==
    /\ \A f \in 1 .. 6 : FacePair(d, f)
    /\ Cardinality(UNION { FacesHolding(CornerSet(Triangle(d, 2 * f))) : f \in 1 .. 6 }) = 6

\* C7 as stated: the 12 triangles of every box cover its six faces, each face
\* by two triangles over its four corners sharing a diagonal, and every
\* triangle (a,b,c) has (b-a) x (c-a) pointing out of the box.
C7_Original ==
    \A d \in Finished :
        /\ SixFaces(d)
        /\ \A t \in 1 .. 12 : NormalDotOut(Triangle(d, t)) > 0

\* C7 amended: the 12 triangles of every box cover its six faces, each face
\* by two triangles over its four corners sharing a diagonal, and the winding
\* is consistent, but inward: every triangle (a,b,c) has (b-a) x (c-a)
\* pointing into the box, towards its centre.
C7_Amended ==
    \A d \in Finished :
        /\ SixFaces(d)
        /\ \A t \in 1 .. 12 : NormalDotOut(Triangle(d, t)) < 0

\* C7's case: a random building and the ground plane have been emitted; the
\* building's first top triangle (4,7,6) has its normal pointing down
C7_Witness ==
    /\ pc = "upload"
    /\ numBuildings = 1
    /\ Processed = 2
    /\ buildings[1].width > 0 /\ buildings[1].depth > 0 /\ buildings[1].height > 0
    /\ CornerSet(Triangle(0, 3)) \subseteq {c \in CornerSet(Triangle(0, 3)) : c.y = 1}
    /\ NormalDotOut(Triangle(0, 3)) < 0

---------------------------------------------------------------------------
(* Properties of main(), checked under Spec *)

\* C8: generateCity and then createBuildingBuffers have each run exactly once,
\* in that order, by the time the buffers are uploaded and the first
\* render-loop iteration starts, and neither runs again; after the single
\* upload no step changes the building list, the vertex buffer or the index
\* buffer, and every frame draws the same index count.
C8_BuiltOnce ==
    /\ [](genCalls <= 1 /\ meshCalls <= 1 /\ uploads <= 1)
    /\ [](meshCalls = 1 => genCalls = 1 /\ Len(buildings) = numBuildings + 1)
    /\ [](pc = "upload" \/ uploads = 1 =>
              /\ genCalls = 1 /\ meshCalls = 1
              /\ Len(vertices) = 48 * Len(buildings)
              /\ Len(indices) = 36 * Len(buildings))
    /\ [](frames >= 1 => uploads = 1)
    /\ [](uploads = 1 => vboFloats = Len(vertices) /\ eboCount = Len(indices))
    /\ [][uploads = 1 =>
              /\ buildings' = buildings
              /\ vertices' = vertices
              /\ indices' = indices
              /\ uploads' = 1]_vars
    /\ [](draws >= 1 => drawCount = eboCount /\ drawCount = 3636)

\* C8's case: the second frame has been drawn from the buffers built at start-up
C8_Witness ==
    /\ pc = "swap"
    /\ frames = 2 /\ draws = 2
    /\ genCalls = 1 /\ meshCalls = 1 /\ uploads = 1
    /\ drawCount = 3636

\* C9: when window or context creation or shader compilation or linking
\* fails, main returns -1 without generating the city, uploading buffers or
\* running a render-loop iteration, and everything acquired so far (the
\* initialised window library, the window, any shader or program object) has
\* been released before main returns.
C9_CleanFailure ==
    pc = "done" /\ ret = -1 =>
        /\ genCalls = 0 /\ meshCalls = 0 /\ uploads = 0 /\ frames = 0
        /\ ~glfwInitialized
        /\ ~windowAlive
        /\ shaderObjects = {}
        /\ ~programAlive

\* what the held keys move the camera by in one frame, as the claim states it
KeyStep(held) ==
    LET on(key) == IF key \in held THEN 1 ELSE 0
    IN  [ x |-> (on("D") - on("A")) * Unit,
          y |-> (on("SPACE") - on("LEFT_CONTROL")) * Unit,
          z |-> (on("S") - on("W")) * Unit ]

\* C10: each render-loop iteration runs processInput exactly once, before the
\* frame's view matrix is computed; it moves the camera by exactly 1 unit per
\* pressed movement key whatever the frame time, so that opposite keys cancel;
\* it never changes cameraFront, which stays (0,0,-1); Escape only sets the
\* close flag, the frame is still rendered and the loop is left at the next
\* loop test, after which the GPU objects are deleted and GLFW is terminated.
C10_InputPerFrame ==
    /\ [](pc = "input" => inputs = frames - 1 /\ draws = frames - 1)
    /\ [](pc = "render" => inputs = frames /\ draws = frames - 1)
    /\ [](pc = "swap" => inputs = frames /\ draws = frames /\ viewEye = cameraPos)
    /\ [](pc \in {"loopTest", "cleanup"} => inputs = frames /\ draws = frames)
    /\ [][pc = "input" =>
              /\ cameraPos' = VAdd(cameraPos, KeyStep(keys))
              /\ cameraFront' = cameraFront
              /\ shouldClose' = (shouldClose \/ "ESCAPE" \in keys)
              /\ pc' = "render"]_vars
    /\ [][pc = "input" /\ {"W", "S", "A", "D", "SPACE", "LEFT_CONTROL"} \cap keys
                              \in {{"W", "S"}, {"A", "D"}, {"SPACE", "LEFT_CONTROL"}} =>
              cameraPos' = cameraPos]_vars
    /\ [](uploads = 1 => cameraFront = [x |-> 0, y |-> 0, z |-> -Unit])
    /\ [][pc # "input" /\ uploads = 1 => cameraPos' = cameraPos]_vars
    /\ [][shouldClose => shouldClose']_vars
    /\ [][pc = "render" => pc' = "swap" /\ draws' = draws + 1]_vars
    /\ [][pc = "swap" => pc' = "loopTest"]_vars
    /\ [][pc = "loopTest" =>
              pc' = IF shouldClose THEN "cleanup" ELSE "input"]_vars
    /\ [][pc = "cleanup" => pc' = "done" /\ ret' = 0]_vars
    /\ [](pc = "done" /\ ret = 0 =>
              gpuObjects = {} /\ ~programAlive /\ ~glfwInitialized /\ ~windowAlive)

\* C10's case: W was held for two frames and Escape for one; the camera has
\* moved two units along the front vector, the close flag is set, and the
\* frame in which Escape was seen has been drawn
C10_Witness ==
    /\ pc = "swap"
    /\ frames = 3 /\ inputs = 3 /\ draws = 3
    /\ keys = {"W", "ESCAPE"}
    /\ shouldClose
    /\ deltaTime = 2
    /\ cameraPos = [x |-> 0, y |-> 50 * Unit, z |-> 148 * Unit]
    /\ viewEye = cameraPos

===========================================================================
